---- MODULE Spec2Model ----
(***************************************************************************)
(* Model of the Blender MCP bridge (src/blender_mcp_addon.py): the TCP     *)
(* connection handler _handle_client, the work items it registers on       *)
(* Blender's main thread (bpy.app.timers), the command router              *)
(* _handle_command, and the server lifecycle (_server_loop, the start and  *)
(* stop operators, register/unregister).                                   *)
(***************************************************************************)
EXTENDS Integers, Sequences, FiniteSets, TLC

\* ------------------------------------------------------------------ bounds
NumConns == 2
MaxThreads == 2
MaxAccepts == 1
MaxFrames == 2
MaxFramesConc == 2

Conns == 1..NumConns
Threads == 1..MaxThreads

\* ------------------------------------------------------------------ bytes
\* A byte stream is a sequence of symbols.  NL is b"\n", SP a whitespace
\* byte, XFF a byte that is not valid UTF-8; every other symbol is a run of
\* JSON text that never contains a newline.
NL == "\n"
SP == " "
XFF == "xFF"

FPing == <<"{\"command\":\"ping\",", "\"params\":{}}", NL>>
FGetMissing == <<"{\"command\":\"get_object_info\",\"params\":{\"name\":\"Nope\"}}", NL>>
FUnknown == <<"{\"command\":\"Ping\",\"params\":{}}", NL>>
FScript == <<"{\"command\":\"run_script\",\"params\":{\"script\":\"result=[bpy]\"}}", NL>>
FArray == <<"[1]", NL>>
FTruncated == <<"{\"command\":\"ping\",", NL>>
FBadUtf8 == <<XFF, NL>>
FBlank == <<SP, NL>>

AllFrames == {FPing, FGetMissing, FUnknown, FScript, FArray, FTruncated, FBadUtf8, FBlank}
ConcFrames == {FPing, FGetMissing}

\* ------------------------------------------------------------------ codec
RECURSIVE StripLeft(_)
StripLeft(s) == IF s # <<>> /\ Head(s) = SP THEN StripLeft(Tail(s)) ELSE s

RECURSIVE StripRight(_)
StripRight(s) ==
  IF s # <<>> /\ s[Len(s)] = SP THEN StripRight(SubSeq(s, 1, Len(s) - 1)) ELSE s

\* bytes.strip()
Strip(s) == StripRight(StripLeft(s))

\* index of the first NL of a buffer, 0 when there is none (b"\n" in buffer)
RECURSIVE FirstNL(_, _)
FirstNL(s, i) == IF i > Len(s) THEN 0 ELSE IF s[i] = NL THEN i ELSE FirstNL(s, i + 1)

\* line, buffer = buffer.split(b"\n", 1)
SplitLine(buf) ==
  LET i == FirstNL(buf, 1)
  IN  [line |-> SubSeq(buf, 1, i - 1), rest |-> SubSeq(buf, i + 1, Len(buf))]

\* Decoded JSON values: an object with its "command" and "params" members,
\* or a value that is not an object.
JObject(cmd, params) == [type |-> "object", command |-> cmd, params |-> params]
JArray == [type |-> "array", command |-> "", params |-> ""]
NoData == [type |-> "unbound", command |-> "", params |-> ""]

\* the frame without its newline
Text(f) == SubSeq(f, 1, Len(f) - 1)

\* a request written without its newline, and a newline written alone
FOpen == Text(FPing)
FEnd == <<NL>>
TailFrames == {FPing, FOpen, FEnd}

\* the JSON texts the clients of this model write, and their values
JsonTexts == {Text(f) : f \in {FPing, FGetMissing, FUnknown, FScript, FArray}}

JsonValue(text) ==
  CASE text = Text(FPing) -> JObject("ping", "{}")
    [] text = Text(FGetMissing) -> JObject("get_object_info", "Nope")
    [] text = Text(FUnknown) -> JObject("Ping", "{}")
    [] text = Text(FScript) -> JObject("run_script", "result=[bpy]")
    [] text = Text(FArray) -> JArray

\* json.loads(line.decode("utf-8")): the bytes are decoded first, then parsed
\* (JSON allows whitespace around the value).
JsonLoads(line) ==
  IF \E i \in 1..Len(line) : line[i] = XFF
  THEN [exc |-> "UnicodeDecodeError", value |-> NoData]
  ELSE IF Strip(line) \in JsonTexts
       THEN [exc |-> "", value |-> JsonValue(Strip(line))]
       ELSE [exc |-> "JSONDecodeError", value |-> NoData]

\* ------------------------------------------------------------------ router
\* keys of the handlers dict of _handle_command, in insertion order
HandlerNames ==
  << "ping", "list_objects", "get_object_info", "delete_object", "clear_scene",
     "get_scene_info", "create_cube", "create_sphere", "create_uv_sphere",
     "create_ico_sphere", "create_cylinder", "create_cone", "create_torus",
     "create_plane", "create_circle", "create_monkey", "create_text",
     "create_bezier_curve", "set_location", "set_rotation", "set_scale",
     "translate", "rotate", "scale", "add_modifier", "apply_modifier",
     "remove_modifier", "boolean_operation", "set_material", "set_parent",
     "clear_parent", "export_stl", "export_obj", "export_fbx", "export_gltf",
     "import_stl", "import_obj", "import_fbx", "render_image", "set_camera",
     "add_light", "set_render_settings", "run_script" >>

Registered == {HandlerNames[i] : i \in DOMAIN HandlerNames}

\* Responses.  A member the JSON object does not have is "" (or <<>>);
\* serializable is FALSE when json.dumps raises TypeError on the value.
Response(ok, result, error, traceback, available, serializable) ==
  [ok |-> ok, result |-> result, error |-> error, traceback |-> traceback,
   available |-> available, serializable |-> serializable]

Success(result) == Response(TRUE, result, "", "", <<>>, TRUE)
Failure(error) == Response(FALSE, "", error, "", <<>>, TRUE)
TimeoutResponse == Failure("Timeout 60s.")
JsonErrorResponse == Failure("JSON non valido")
NoResponse == Response(FALSE, "", "<none>", "", <<>>, TRUE)

\* The characters of a string value of a response.  traceback.format_exc()
\* gives several lines, each ended by a newline; the other strings of this
\* model are single runs of characters.
Chars(str) ==
  IF str = "traceback"
  THEN <<"Traceback (most recent call last):", NL, "ValueError: Oggetto non trovato.", NL>>
  ELSE <<str>>

\* a string as json.dumps writes it: quoted, a newline written as the
\* two characters backslash n
RECURSIVE Escaped(_)
Escaped(chars) ==
  IF chars = <<>> THEN <<>>
  ELSE <<(IF Head(chars) = NL THEN "\\n" ELSE Head(chars))>> \o Escaped(Tail(chars))

JsonString(str) == <<"\"">> \o Escaped(Chars(str)) \o <<"\"">>

RECURSIVE JsonStrings(_)
JsonStrings(strs) ==
  IF strs = <<>> THEN <<>>
  ELSE JsonString(Head(strs)) \o (IF Len(strs) > 1 THEN <<",">> ELSE <<>>) \o JsonStrings(Tail(strs))

JsonDumpsRaw(r) ==
  <<"{", (IF r.ok THEN "true" ELSE "false")>>
    \o <<"\"">> \o Chars(r.result) \o <<"\"">>
    \o <<"\"">> \o Chars(r.error) \o <<"\"">>
    \o <<"\"">> \o Chars(r.traceback) \o <<"\"">>
    \o <<"[">> \o JsonStrings(r.available) \o <<"]", "}">>

\* json.dumps(response): one line of JSON text, the members in order
JsonDumps(r) ==
  <<"{", (IF r.ok THEN "true" ELSE "false")>>
    \o JsonString(r.result) \o JsonString(r.error) \o JsonString(r.traceback)
    \o <<"[">> \o JsonStrings(r.available) \o <<"]", "}">>

\* the scene of the host: the objects bpy.data.objects holds
SceneObjects == {"Cube"}

\* handler(params) for the handlers this model calls: cmd_ping ignores its
\* parameters, cmd_get_object_info raises ValueError (_get_obj) for a name
\* the scene does not hold, cmd_run_script returns whatever the script
\* leaves in "result" (here a list json.dumps cannot encode).
Handler(cmd, params) ==
  CASE cmd = "ping" -> [raised |-> FALSE, value |-> "status=alive", serializable |-> TRUE]
    [] cmd = "get_object_info" ->
         IF params \in SceneObjects
         THEN [raised |-> FALSE, value |-> "info(Cube)", serializable |-> TRUE]
         ELSE [raised |-> TRUE, value |-> "Oggetto non trovato.", serializable |-> TRUE]
    [] cmd = "run_script" ->
         [raised |-> FALSE, value |-> "script_result=[bpy]", serializable |-> FALSE]
    [] OTHER -> [raised |-> FALSE, value |-> "done", serializable |-> TRUE]

HandleCommandDropsLast(data) ==
  IF data.type # "object"
  THEN [exc |-> "AttributeError", response |-> NoResponse]
  ELSE IF data.command \notin Registered
       THEN [exc |-> "",
             response |-> Response(FALSE, "", "Comando sconosciuto", "",
                                   SubSeq(HandlerNames, 1, Len(HandlerNames) - 1), TRUE)]
       ELSE LET r == Handler(data.command, data.params)
            IN  [exc |-> "",
                 response |-> IF r.raised
                              THEN Response(FALSE, "", r.value, "traceback", <<>>, TRUE)
                              ELSE Response(TRUE, r.value, "", "", <<>>, r.serializable)]

\* _handle_command(data); exc is the exception that escapes it
HandleCommand(data) ==
  IF data.type # "object"
  THEN [exc |-> "AttributeError", response |-> NoResponse]
  ELSE IF data.command \notin Registered
       THEN [exc |-> "",
             response |-> Response(FALSE, "", "Comando sconosciuto", "", HandlerNames, TRUE)]
       ELSE LET r == Handler(data.command, data.params)
            IN  [exc |-> "",
                 response |-> IF r.raised
                              THEN Response(FALSE, "", r.value, "traceback", <<>>, TRUE)
                              ELSE Response(TRUE, r.value, "", "", <<>>, r.serializable)]

\* ------------------------------------------------------------------ state
VARIABLES
  menu,        \* the frames the clients of this run write
  quota,       \* quota[c]: frames client c may still write
  peer,        \* peer[c]: "open", "closed" (FIN sent) or "reset" (RST sent)
  net,         \* net[c]: bytes written by client c, not yet returned by recv
  sent,        \* sent[c]: the frames client c has written, in order
  pc,          \* pc[c]: where the thread of _handle_client(c) stands
  buffer,      \* buffer[c]: the local "buffer" of _handle_client
  line,        \* line[c]: the local "line", the last line split off the buffer
  data,        \* data[c]: the closure cell "data"
  holder,      \* holder[c]: the list the closure cell "result_holder" is bound to
  event,       \* event[c]: the Event the closure cell "done_event" is bound to
  response,    \* response[c]: the local "response"
  origin,      \* origin[c]: the work item whose stored value "response" is
  nreq,        \* nreq[c]: non-blank lines decoded so far (the current request)
  dataReq,     \* dataReq[c]: the request whose json.loads bound "data"
  timedOut,    \* timedOut[c]: done_event.wait returned on its deadline
  crashed,     \* crashed[c]: the exception that ended the handler thread, or ""
  out,         \* out[c]: the responses written to the socket, in order
  sched,       \* the callbacks registered with bpy.app.timers
  host,        \* the main thread: idle, or inside one execute_in_main
  stall        \* the main thread may leave a callback waiting for 60 s or more

connVars == <<menu, quota, peer, net, sent, pc, buffer, line, data, holder, event, response,
              origin, nreq, dataReq, timedOut, crashed, out, sched, host, stall>>

\* ------------------------------------------------------------------ server state
VARIABLES
  running,        \* the global _running
  server_thread,  \* the global _server_thread (0: None)
  server_socket,  \* the global _server_socket (0: None); thread t creates socket t
  thr,            \* thr[t]: the thread of _server_loop number t
  sock,           \* sock[s]: "none", "open", "listening" or "closed"
  registered,     \* the add-on's classes are registered (the operators exist)
  report,         \* the last self.report and return value of an operator
  calls,          \* the last two lifecycle calls that changed _running
  accepted,       \* connections accepted so far
  extBusy,        \* another process holds HOST:PORT
  platform        \* "posix": a second listener on the port cannot bind;
                  \* "windows": SO_REUSEADDR lets it bind

lifeVars == <<running, server_thread, server_socket, thr, sock, registered, report, calls,
              accepted, extBusy, platform>>

vars == <<connVars, lifeVars>>

\* result_holder = [None]; "by" and "on" record which work item stored the
\* value and which request's data it ran on (0: nothing stored)
EmptyHolder == [set |-> FALSE, val |-> NoResponse, by |-> 0, on |-> 0]
\* done_event = threading.Event()
NewEvent == [set |-> FALSE, by |-> 0]
NoOrigin == [by |-> 0, on |-> 0]
HostIdle ==
  [phase |-> "idle", conn |-> 0, req |-> 0, on |-> 0, arg |-> NoData, exc |-> "",
   val |-> NoResponse]

InitConns(frames, frameQuota, stalls) ==
  /\ menu = frames
  /\ quota = frameQuota
  /\ peer = [c \in Conns |-> "open"]
  /\ net = [c \in Conns |-> <<>>]
  /\ sent = [c \in Conns |-> <<>>]
  /\ pc = [c \in Conns |-> "idle"]
  /\ buffer = [c \in Conns |-> <<>>]
  /\ line = [c \in Conns |-> <<>>]
  /\ data = [c \in Conns |-> NoData]
  /\ holder = [c \in Conns |-> EmptyHolder]
  /\ event = [c \in Conns |-> NewEvent]
  /\ response = [c \in Conns |-> NoResponse]
  /\ origin = [c \in Conns |-> NoOrigin]
  /\ nreq = [c \in Conns |-> 0]
  /\ dataReq = [c \in Conns |-> 0]
  /\ timedOut = [c \in Conns |-> FALSE]
  /\ crashed = [c \in Conns |-> ""]
  /\ out = [c \in Conns |-> <<>>]
  /\ sched = {}
  /\ host = HostIdle
  /\ stall = stalls

\* ------------------------------------------------------------------ clients
\* the peer connects: the accept loop starts a thread on _handle_client
StartClient(c) ==
  /\ pc[c] = "idle"
  /\ quota[c] > 0
  /\ pc' = [pc EXCEPT ![c] = "recv"]
  /\ buffer' = [buffer EXCEPT ![c] = <<>>]
  /\ UNCHANGED <<menu, quota, peer, net, sent, line, data, holder, event, response, origin, nreq,
                 dataReq, timedOut, crashed, out, sched, host, stall>>
  /\ UNCHANGED lifeVars

\* the peer writes one frame
ClientSend(c, f) ==
  /\ pc[c] # "idle"
  /\ peer[c] = "open"
  /\ quota[c] > 0
  /\ f \in menu
  /\ quota' = [quota EXCEPT ![c] = @ - 1]
  /\ net' = [net EXCEPT ![c] = @ \o f]
  /\ sent' = [sent EXCEPT ![c] = Append(@, f)]
  /\ UNCHANGED <<menu, peer, pc, buffer, line, data, holder, event, response, origin, nreq, dataReq,
                 timedOut, crashed, out, sched, host, stall>>
  /\ UNCHANGED lifeVars

\* the peer closes its side
ClientClose(c) ==
  /\ pc[c] # "idle"
  /\ peer[c] = "open"
  /\ peer' = [peer EXCEPT ![c] = "closed"]
  /\ UNCHANGED <<menu, quota, net, sent, pc, buffer, line, data, holder, event, response, origin, nreq,
                 dataReq, timedOut, crashed, out, sched, host, stall>>
  /\ UNCHANGED lifeVars

\* the peer resets the connection
ClientReset(c) ==
  /\ pc[c] # "idle"
  /\ peer[c] = "open"
  /\ peer' = [peer EXCEPT ![c] = "reset"]
  /\ net' = [net EXCEPT ![c] = <<>>]
  /\ UNCHANGED <<menu, quota, sent, pc, buffer, line, data, holder, event, response, origin, nreq,
                 dataReq, timedOut, crashed, out, sched, host, stall>>
  /\ UNCHANGED lifeVars

\* ------------------------------------------------------------------ _handle_client
\* finally: client_socket.close(); exc is the exception that left the loop
Close(c, exc) ==
  /\ pc' = [pc EXCEPT ![c] = "closed"]
  /\ crashed' = [crashed EXCEPT ![c] = exc]

RecvChunkOverwrites(c, n) ==
  /\ pc[c] = "recv"
  /\ peer[c] # "reset"
  /\ n \in 1..Len(net[c])
  /\ buffer' = [buffer EXCEPT ![c] = SubSeq(net[c], 1, n)]
  /\ net' = [net EXCEPT ![c] = SubSeq(@, n + 1, Len(@))]
  /\ pc' = [pc EXCEPT ![c] = "drain"]
  /\ UNCHANGED <<menu, quota, peer, sent, line, data, holder, event, response, origin, nreq,
                 dataReq, timedOut, crashed, out, sched, host, stall>>
  /\ UNCHANGED lifeVars

\* chunk = client_socket.recv(65536); buffer += chunk
RecvChunk(c, n) ==
  /\ pc[c] = "recv"
  /\ peer[c] # "reset"
  /\ n \in 1..Len(net[c])
  /\ buffer' = [buffer EXCEPT ![c] = @ \o SubSeq(net[c], 1, n)]
  /\ net' = [net EXCEPT ![c] = SubSeq(@, n + 1, Len(@))]
  /\ pc' = [pc EXCEPT ![c] = "drain"]
  /\ UNCHANGED <<menu, quota, peer, sent, line, data, holder, event, response, origin, nreq,
                 dataReq, timedOut, crashed, out, sched, host, stall>>
  /\ UNCHANGED lifeVars

RecvEOFFlushesTail(c) ==
  /\ pc[c] = "recv"
  /\ peer[c] = "closed"
  /\ net[c] = <<>>
  /\ IF buffer[c] # <<>>
     THEN /\ buffer' = [buffer EXCEPT ![c] = @ \o <<NL>>]
          /\ pc' = [pc EXCEPT ![c] = "drain"]
          /\ crashed' = crashed
     ELSE /\ Close(c, "")
          /\ buffer' = buffer
  /\ UNCHANGED <<menu, quota, peer, net, sent, line, data, holder, event, response,
                 origin, nreq, dataReq, timedOut, out, sched, host, stall>>
  /\ UNCHANGED lifeVars

\* recv returns b"" (the peer closed): break, then the finally clause
RecvEOF(c) ==
  /\ pc[c] = "recv"
  /\ peer[c] = "closed"
  /\ net[c] = <<>>
  /\ Close(c, "")
  /\ UNCHANGED <<menu, quota, peer, net, sent, buffer, line, data, holder, event, response,
                 origin, nreq, dataReq, timedOut, out, sched, host, stall>>
  /\ UNCHANGED lifeVars

\* recv raises ConnectionResetError: except clause, then the finally clause
RecvReset(c) ==
  /\ pc[c] = "recv"
  /\ peer[c] = "reset"
  /\ Close(c, "")
  /\ UNCHANGED <<menu, quota, peer, net, sent, buffer, line, data, holder, event, response,
                 origin, nreq, dataReq, timedOut, out, sched, host, stall>>
  /\ UNCHANGED lifeVars

DrainJsonErrorDropsBuffer(c) ==
  /\ pc[c] = "drain"
  /\ IF FirstNL(buffer[c], 1) = 0
     THEN /\ pc' = [pc EXCEPT ![c] = "recv"]
          /\ UNCHANGED <<buffer, line, data, response, origin, nreq, dataReq, crashed, timedOut>>
     ELSE LET sp == SplitLine(buffer[c])
              dec == JsonLoads(sp.line)
          IN  /\ buffer' = [buffer EXCEPT ![c] = IF Strip(sp.line) # <<>> /\ dec.exc = "JSONDecodeError"
                                                  THEN <<>> ELSE sp.rest]
              /\ line' = [line EXCEPT ![c] = sp.line]
              /\ IF Strip(sp.line) = <<>>
                 THEN UNCHANGED <<pc, data, response, origin, nreq, dataReq, crashed, timedOut>>
                 ELSE /\ nreq' = [nreq EXCEPT ![c] = @ + 1]
                      /\ timedOut' = [timedOut EXCEPT ![c] = FALSE]
                      /\ IF dec.exc = "UnicodeDecodeError"
                         THEN /\ Close(c, dec.exc)
                              /\ UNCHANGED <<data, dataReq, response, origin>>
                         ELSE IF dec.exc = "JSONDecodeError"
                              THEN /\ response' = [response EXCEPT ![c] = JsonErrorResponse]
                                   /\ origin' = [origin EXCEPT ![c] = NoOrigin]
                                   /\ pc' = [pc EXCEPT ![c] = "send"]
                                   /\ UNCHANGED <<data, dataReq, crashed>>
                              ELSE /\ data' = [data EXCEPT ![c] = dec.value]
                                   /\ dataReq' = [dataReq EXCEPT ![c] = nreq[c] + 1]
                                   /\ pc' = [pc EXCEPT ![c] = "mkholder"]
                                   /\ UNCHANGED <<response, origin, crashed>>
  /\ UNCHANGED <<menu, quota, peer, net, sent, holder, event, out, sched, host, stall>>
  /\ UNCHANGED lifeVars

DrainBlankIsMalformed(c) ==
  /\ pc[c] = "drain"
  /\ IF FirstNL(buffer[c], 1) = 0
     THEN /\ pc' = [pc EXCEPT ![c] = "recv"]
          /\ UNCHANGED <<buffer, line, data, response, origin, nreq, dataReq, crashed, timedOut>>
     ELSE LET sp == SplitLine(buffer[c])
              dec == JsonLoads(sp.line)
          IN  /\ buffer' = [buffer EXCEPT ![c] = sp.rest]
              /\ line' = [line EXCEPT ![c] = sp.line]
              /\ nreq' = [nreq EXCEPT ![c] = @ + 1]
              /\ timedOut' = [timedOut EXCEPT ![c] = FALSE]
              /\ IF dec.exc = "UnicodeDecodeError"
                 THEN /\ Close(c, dec.exc)
                      /\ UNCHANGED <<data, dataReq, response, origin>>
                 ELSE IF dec.exc = "JSONDecodeError"
                      THEN /\ response' = [response EXCEPT ![c] = JsonErrorResponse]
                           /\ origin' = [origin EXCEPT ![c] = NoOrigin]
                           /\ pc' = [pc EXCEPT ![c] = "send"]
                           /\ UNCHANGED <<data, dataReq, crashed>>
                      ELSE /\ data' = [data EXCEPT ![c] = dec.value]
                           /\ dataReq' = [dataReq EXCEPT ![c] = nreq[c] + 1]
                           /\ pc' = [pc EXCEPT ![c] = "mkholder"]
                           /\ UNCHANGED <<response, origin, crashed>>
  /\ UNCHANGED <<menu, quota, peer, net, sent, holder, event, out, sched, host, stall>>
  /\ UNCHANGED lifeVars

\* while b"\n" in buffer: split one line off, skip it when blank, else
\* data = json.loads(line.decode("utf-8"))
Drain(c) ==
  /\ pc[c] = "drain"
  /\ IF FirstNL(buffer[c], 1) = 0
     THEN /\ pc' = [pc EXCEPT ![c] = "recv"]
          /\ UNCHANGED <<buffer, line, data, response, origin, nreq, dataReq, crashed, timedOut>>
     ELSE LET sp == SplitLine(buffer[c])
              dec == JsonLoads(sp.line)
          IN  /\ buffer' = [buffer EXCEPT ![c] = sp.rest]
              /\ line' = [line EXCEPT ![c] = sp.line]
              /\ IF Strip(sp.line) = <<>>
                 THEN UNCHANGED <<pc, data, response, origin, nreq, dataReq, crashed, timedOut>>
                 ELSE /\ nreq' = [nreq EXCEPT ![c] = @ + 1]
                      /\ timedOut' = [timedOut EXCEPT ![c] = FALSE]
                      /\ IF dec.exc = "UnicodeDecodeError"
                         THEN /\ Close(c, dec.exc)
                              /\ UNCHANGED <<data, dataReq, response, origin>>
                         ELSE IF dec.exc = "JSONDecodeError"
                              THEN /\ response' = [response EXCEPT ![c] = JsonErrorResponse]
                                   /\ origin' = [origin EXCEPT ![c] = NoOrigin]
                                   /\ pc' = [pc EXCEPT ![c] = "send"]
                                   /\ UNCHANGED <<data, dataReq, crashed>>
                              ELSE /\ data' = [data EXCEPT ![c] = dec.value]
                                   /\ dataReq' = [dataReq EXCEPT ![c] = nreq[c] + 1]
                                   /\ pc' = [pc EXCEPT ![c] = "mkholder"]
                                   /\ UNCHANGED <<response, origin, crashed>>
  /\ UNCHANGED <<menu, quota, peer, net, sent, holder, event, out, sched, host, stall>>
  /\ UNCHANGED lifeVars

\* result_holder = [None]
MkHolder(c) ==
  /\ pc[c] = "mkholder"
  /\ holder' = [holder EXCEPT ![c] = EmptyHolder]
  /\ pc' = [pc EXCEPT ![c] = "mkevent"]
  /\ UNCHANGED <<menu, quota, peer, net, sent, buffer, line, data, event, response, origin, nreq,
                 dataReq, timedOut, crashed, out, sched, host, stall>>
  /\ UNCHANGED lifeVars

\* done_event = threading.Event()
MkEvent(c) ==
  /\ pc[c] = "mkevent"
  /\ event' = [event EXCEPT ![c] = NewEvent]
  /\ pc' = [pc EXCEPT ![c] = "register"]
  /\ UNCHANGED <<menu, quota, peer, net, sent, buffer, line, data, holder, response, origin, nreq,
                 dataReq, timedOut, crashed, out, sched, host, stall>>
  /\ UNCHANGED lifeVars

RegisterNoWait(c) ==
  /\ pc[c] = "register"
  /\ sched' = sched \cup {[conn |-> c, req |-> nreq[c]]}
  /\ pc' = [pc EXCEPT ![c] = "drain"]
  /\ UNCHANGED <<menu, quota, peer, net, sent, buffer, line, data, holder, event, response,
                 origin, nreq, dataReq, timedOut, crashed, out, host, stall>>
  /\ UNCHANGED lifeVars

RegisterRunsInline(c) ==
  /\ pc[c] = "register"
  /\ LET r == HandleCommand(data[c])
     IN  IF r.exc # ""
         THEN /\ Close(c, r.exc)
              /\ UNCHANGED <<holder, event>>
         ELSE /\ holder' = [holder EXCEPT ![c] = [set |-> TRUE, val |-> r.response,
                                                  by |-> nreq[c], on |-> dataReq[c]]]
              /\ event' = [event EXCEPT ![c] = [set |-> TRUE, by |-> nreq[c]]]
              /\ pc' = [pc EXCEPT ![c] = "wait"]
              /\ crashed' = crashed
  /\ UNCHANGED <<menu, quota, peer, net, sent, buffer, line, data, response,
                 origin, nreq, dataReq, timedOut, out, sched, host, stall>>
  /\ UNCHANGED lifeVars

\* bpy.app.timers.register(execute_in_main, first_interval=0.0), then the
\* thread enters done_event.wait(timeout=60.0)
Register(c) ==
  /\ pc[c] = "register"
  /\ sched' = sched \cup {[conn |-> c, req |-> nreq[c]]}
  /\ pc' = [pc EXCEPT ![c] = "wait"]
  /\ UNCHANGED <<menu, quota, peer, net, sent, buffer, line, data, holder, event, response,
                 origin, nreq, dataReq, timedOut, crashed, out, host, stall>>
  /\ UNCHANGED lifeVars

WaitRetracts(c) ==
  /\ pc[c] = "wait"
  /\ IF event[c].set
     THEN UNCHANGED <<timedOut, sched>>
     ELSE /\ stall
          /\ timedOut' = [timedOut EXCEPT ![c] = TRUE]
          /\ sched' = sched \ {[conn |-> c, req |-> nreq[c]]}
  /\ pc' = [pc EXCEPT ![c] = "inspect"]
  /\ UNCHANGED <<menu, quota, peer, net, sent, buffer, line, data, holder, event, response,
                 origin, nreq, dataReq, crashed, out, host, stall>>
  /\ UNCHANGED lifeVars

WaitNoDeadline(c) ==
  /\ pc[c] = "wait"
  /\ event[c].set
  /\ pc' = [pc EXCEPT ![c] = "inspect"]
  /\ UNCHANGED <<menu, quota, peer, net, sent, buffer, line, data, holder, event, response,
                 origin, nreq, dataReq, timedOut, crashed, out, sched, host, stall>>
  /\ UNCHANGED lifeVars

\* done_event.wait(timeout=60.0) returns: True once the event is set, False
\* when 60 s have gone by with the event unset
Wait(c) ==
  /\ pc[c] = "wait"
  /\ IF event[c].set
     THEN UNCHANGED timedOut
     ELSE /\ stall
          /\ timedOut' = [timedOut EXCEPT ![c] = TRUE]
  /\ pc' = [pc EXCEPT ![c] = "inspect"]
  /\ UNCHANGED <<menu, quota, peer, net, sent, buffer, line, data, holder, event, response,
                 origin, nreq, dataReq, crashed, out, sched, host, stall>>
  /\ UNCHANGED lifeVars

InspectHonoursDeadline(c) ==
  /\ pc[c] = "inspect"
  /\ response' = [response EXCEPT ![c] = IF holder[c].set /\ ~timedOut[c] THEN holder[c].val
                                         ELSE TimeoutResponse]
  /\ origin' = [origin EXCEPT ![c] = IF timedOut[c] THEN NoOrigin
                                     ELSE [by |-> holder[c].by, on |-> holder[c].on]]
  /\ pc' = [pc EXCEPT ![c] = "send"]
  /\ UNCHANGED <<menu, quota, peer, net, sent, buffer, line, data, holder, event, nreq, dataReq,
                 timedOut, crashed, out, sched, host, stall>>
  /\ UNCHANGED lifeVars

\* if result_holder[0] is None: response = timeout, else result_holder[0]
Inspect(c) ==
  /\ pc[c] = "inspect"
  /\ response' = [response EXCEPT ![c] = IF holder[c].set THEN holder[c].val
                                         ELSE TimeoutResponse]
  /\ origin' = [origin EXCEPT ![c] = [by |-> holder[c].by, on |-> holder[c].on]]
  /\ pc' = [pc EXCEPT ![c] = "send"]
  /\ UNCHANGED <<menu, quota, peer, net, sent, buffer, line, data, holder, event, nreq, dataReq,
                 timedOut, crashed, out, sched, host, stall>>
  /\ UNCHANGED lifeVars

SendIgnoresReset(c) ==
  /\ pc[c] = "send"
  /\ IF ~response[c].serializable
     THEN /\ Close(c, "TypeError")
          /\ out' = out
     ELSE /\ out' = IF peer[c] = "reset" THEN out
                    ELSE [out EXCEPT ![c] = Append(@, [req |-> nreq[c], line |-> line[c], body |-> response[c],
                                                      by |-> origin[c].by, on |-> origin[c].on,
                                                      late |-> timedOut[c],
                                                      bytes |-> JsonDumps(response[c]) \o <<NL>>])]
          /\ pc' = [pc EXCEPT ![c] = "drain"]
          /\ crashed' = crashed
  /\ UNCHANGED <<menu, quota, peer, net, sent, buffer, line, data, holder, event, response,
                 origin, nreq, dataReq, timedOut, sched, host, stall>>
  /\ UNCHANGED lifeVars

\* response_bytes = json.dumps(response).encode("utf-8") + b"\n";
\* client_socket.sendall(response_bytes); "bytes" is what goes on the wire,
\* the other fields of an entry record where the response came from
Send(c) ==
  /\ pc[c] = "send"
  /\ IF ~response[c].serializable
     THEN /\ Close(c, "TypeError")
          /\ out' = out
     ELSE IF peer[c] = "reset"
          THEN /\ Close(c, "")
               /\ out' = out
          ELSE /\ out' = [out EXCEPT ![c] = Append(@, [req |-> nreq[c], line |-> line[c], body |-> response[c],
                                                      by |-> origin[c].by, on |-> origin[c].on,
                                                      late |-> timedOut[c],
                                                      bytes |-> JsonDumps(response[c]) \o <<NL>>])]
               /\ pc' = [pc EXCEPT ![c] = "drain"]
               /\ crashed' = crashed
  /\ UNCHANGED <<menu, quota, peer, net, sent, buffer, line, data, holder, event, response,
                 origin, nreq, dataReq, timedOut, sched, host, stall>>
  /\ UNCHANGED lifeVars

\* ------------------------------------------------------------------ main thread
HostStartSharedData(i) ==
  /\ host.phase = "idle"
  /\ i \in sched
  /\ sched' = sched \ {i}
  /\ LET r == HandleCommand(data[1])
     IN  host' = [phase |-> "run", conn |-> i.conn, req |-> i.req, on |-> dataReq[1],
                  arg |-> data[1], exc |-> r.exc, val |-> r.response]
  /\ UNCHANGED <<menu, quota, peer, net, sent, pc, buffer, line, data, holder, event, response,
                 origin, nreq, dataReq, timedOut, crashed, out, stall>>
  /\ UNCHANGED lifeVars

HostStartReentrant(i) ==
  /\ i \in sched
  /\ sched' = sched \ {i}
  /\ LET r == HandleCommand(data[i.conn])
     IN  host' = [phase |-> "run", conn |-> i.conn, req |-> i.req, on |-> dataReq[i.conn],
                  arg |-> data[i.conn], exc |-> r.exc, val |-> r.response]
  /\ UNCHANGED <<menu, quota, peer, net, sent, pc, buffer, line, data, holder, event, response,
                 origin, nreq, dataReq, timedOut, crashed, out, stall>>
  /\ UNCHANGED lifeVars

\* Blender's timer system calls one registered execute_in_main, which reads
\* the cell "data" and enters _handle_command; returning None unregisters it
HostStart(i) ==
  /\ host.phase = "idle"
  /\ i \in sched
  /\ sched' = sched \ {i}
  /\ LET r == HandleCommand(data[i.conn])
     IN  host' = [phase |-> "run", conn |-> i.conn, req |-> i.req, on |-> dataReq[i.conn],
                  arg |-> data[i.conn], exc |-> r.exc, val |-> r.response]
  /\ UNCHANGED <<menu, quota, peer, net, sent, pc, buffer, line, data, holder, event, response,
                 origin, nreq, dataReq, timedOut, crashed, out, stall>>
  /\ UNCHANGED lifeVars

\* _handle_command returns and result_holder[0] = ... stores into the list
\* the cell "result_holder" is bound to now; an exception that escapes
\* _handle_command ends the callback instead
HostStore ==
  /\ host.phase = "run"
  /\ IF host.exc # ""
     THEN /\ host' = HostIdle
          /\ holder' = holder
     ELSE /\ holder' = [holder EXCEPT ![host.conn] =
                          [set |-> TRUE, val |-> host.val, by |-> host.req, on |-> host.on]]
          /\ host' = [host EXCEPT !.phase = "set"]
  /\ UNCHANGED <<menu, quota, peer, net, sent, pc, buffer, line, data, event, response, origin,
                 nreq, dataReq, timedOut, crashed, out, sched, stall>>
  /\ UNCHANGED lifeVars

\* done_event.set() on the Event the cell "done_event" is bound to now
HostSet ==
  /\ host.phase = "set"
  /\ event' = [event EXCEPT ![host.conn] = [set |-> TRUE, by |-> host.req]]
  /\ host' = HostIdle
  /\ UNCHANGED <<menu, quota, peer, net, sent, pc, buffer, line, data, holder, response, origin,
                 nreq, dataReq, timedOut, crashed, out, sched, stall>>
  /\ UNCHANGED lifeVars

\* ------------------------------------------------------------------ _server_loop
NoThread == [pc |-> "none", cur |-> 0, why |-> ""]
NoReport == [op |-> "", level |-> "", result |-> ""]

InitLife(busy, platforms) ==
  /\ running = FALSE
  /\ server_thread = 0
  /\ server_socket = 0
  /\ thr = [t \in Threads |-> NoThread]
  /\ sock = [t \in Threads |-> "none"]
  /\ registered = FALSE
  /\ report = NoReport
  /\ calls = <<>>
  /\ accepted = 0
  /\ extBusy \in busy
  /\ platform \in platforms

\* a socket object is closed when its last reference goes: the global
\* _server_socket, or a thread inside accept() on it
Referenced(s, global, threads) == global = s \/ \E t \in Threads : threads[t].cur = s

Collect(socks, global, threads) ==
  [s \in Threads |-> IF socks[s] \in {"open", "listening"} /\ ~Referenced(s, global, threads)
                     THEN "closed" ELSE socks[s]]

LastTwo(seq) == IF Len(seq) > 2 THEN SubSeq(seq, Len(seq) - 1, Len(seq)) ELSE seq

\* threading.Thread(target=_server_loop, daemon=True).start()
FreeThread == CHOOSE t \in Threads : thr[t].pc = "none" /\ \A u \in 1..(t - 1) : thr[u].pc # "none"

\* _server_socket = socket.socket(...); setsockopt(SO_REUSEADDR); settimeout(1.0)
LoopCreate(t) ==
  /\ thr[t].pc = "create"
  /\ server_socket' = t
  /\ thr' = [thr EXCEPT ![t].pc = "bind"]
  /\ sock' = Collect([sock EXCEPT ![t] = "open"], t, thr)
  /\ UNCHANGED <<running, server_thread, registered, report, calls, accepted, extBusy, platform>>
  /\ UNCHANGED connVars

\* the address is taken for the socket s that binds
PortBusy(s) ==
  \/ extBusy
  \/ platform = "posix" /\ \E o \in Threads : o # s /\ sock[o] = "listening"

\* finally: if _server_socket: _server_socket.close()
LoopExit(t, why) ==
  /\ thr' = [thr EXCEPT ![t] = [pc |-> "done", cur |-> 0, why |-> why]]
  /\ sock' = IF server_socket # 0 THEN [sock EXCEPT ![server_socket] = "closed"] ELSE sock

\* _server_socket.bind((HOST, PORT)); _server_socket.listen(5): OSError
\* leaves through the except and finally clauses
LoopBind(t) ==
  /\ thr[t].pc = "bind"
  /\ IF sock[server_socket] # "open" \/ PortBusy(server_socket)
     THEN LoopExit(t, "bind")
     ELSE /\ sock' = [sock EXCEPT ![server_socket] = "listening"]
          /\ thr' = [thr EXCEPT ![t].pc = "test"]
  /\ UNCHANGED <<running, server_thread, server_socket, registered, report, calls, accepted,
                 extBusy, platform>>
  /\ UNCHANGED connVars

LoopTestIgnoresFlag(t) ==
  /\ thr[t].pc = "test"
  /\ thr' = [thr EXCEPT ![t] = [pc |-> "accept", cur |-> server_socket, why |-> ""]]
  /\ sock' = sock
  /\ UNCHANGED <<running, server_thread, server_socket, registered, report, calls, accepted,
                 extBusy, platform>>
  /\ UNCHANGED connVars

\* while _running: ... _server_socket.accept() begins on the socket the
\* global names now
LoopTest(t) ==
  /\ thr[t].pc = "test"
  /\ IF running
     THEN /\ thr' = [thr EXCEPT ![t] = [pc |-> "accept", cur |-> server_socket, why |-> ""]]
          /\ sock' = sock
     ELSE LoopExit(t, "stop")
  /\ UNCHANGED <<running, server_thread, server_socket, registered, report, calls, accepted,
                 extBusy, platform>>
  /\ UNCHANGED connVars

\* accept() ends: with socket.timeout (continue), with a connection (a
\* handler thread is started), or with OSError (the except and finally
\* clauses).  A listening socket times out or accepts; a closed socket
\* raises; a socket not yet bound raises or times out.
AcceptOutcomes(s) ==
  CASE sock[s] = "listening" -> {"timeout", "connection"}
    [] sock[s] = "open" -> {"timeout", "OSError"}
    [] OTHER -> {"OSError"}

LoopAcceptKeepsAccepting(t, how) ==
  /\ thr[t].pc = "accept"
  /\ how \in AcceptOutcomes(thr[t].cur)
  /\ IF how = "OSError"
     THEN /\ LoopExit(t, "accept")
          /\ accepted' = accepted
     ELSE IF how = "connection"
          THEN /\ accepted < MaxAccepts
               /\ accepted' = accepted + 1
               /\ UNCHANGED <<thr, sock>>
          ELSE /\ thr' = [thr EXCEPT ![t] = [pc |-> "test", cur |-> 0, why |-> ""]]
               /\ sock' = Collect(sock, server_socket, [thr EXCEPT ![t].cur = 0])
               /\ accepted' = accepted
  /\ UNCHANGED <<running, server_thread, server_socket, registered, report, calls, extBusy,
                 platform>>
  /\ UNCHANGED connVars

LoopAccept(t, how) ==
  /\ thr[t].pc = "accept"
  /\ how \in AcceptOutcomes(thr[t].cur)
  /\ IF how = "OSError"
     THEN /\ LoopExit(t, "accept")
          /\ accepted' = accepted
     ELSE /\ thr' = [thr EXCEPT ![t] = [pc |-> "test", cur |-> 0, why |-> ""]]
          /\ sock' = Collect(sock, server_socket, [thr EXCEPT ![t].cur = 0])
          /\ IF how = "connection"
             THEN /\ accepted < MaxAccepts
                  /\ accepted' = accepted + 1
             ELSE accepted' = accepted
  /\ UNCHANGED <<running, server_thread, server_socket, registered, report, calls, extBusy,
                 platform>>
  /\ UNCHANGED connVars

\* ------------------------------------------------------------------ operators
Spawn ==
  /\ \E t \in Threads : thr[t].pc = "none"
  /\ server_thread' = FreeThread
  /\ thr' = [thr EXCEPT ![FreeThread].pc = "create"]

\* MCP_OT_StartServer.execute
StartExecute ==
  /\ registered
  /\ IF running
     THEN /\ report' = [op |-> "start", level |-> "WARNING", result |-> "CANCELLED"]
          /\ UNCHANGED <<running, server_thread, thr, calls>>
     ELSE /\ running' = TRUE
          /\ Spawn
          /\ report' = [op |-> "start", level |-> "INFO", result |-> "FINISHED"]
          /\ calls' = LastTwo(Append(calls, "start"))
  /\ UNCHANGED <<server_socket, sock, registered, accepted, extBusy, platform>>
  /\ UNCHANGED connVars

StopExecuteClosesSocket ==
  /\ registered
  /\ running' = FALSE
  /\ sock' = IF server_socket # 0 THEN [sock EXCEPT ![server_socket] = "closed"] ELSE sock
  /\ report' = [op |-> "stop", level |-> "INFO", result |-> "FINISHED"]
  /\ calls' = LastTwo(Append(calls, "stop"))
  /\ UNCHANGED <<server_thread, server_socket, thr, registered, accepted, extBusy, platform>>
  /\ UNCHANGED connVars

\* MCP_OT_StopServer.execute
StopExecute ==
  /\ registered
  /\ IF ~running
     THEN /\ report' = [op |-> "stop", level |-> "WARNING", result |-> "CANCELLED"]
          /\ UNCHANGED <<running, calls>>
     ELSE /\ running' = FALSE
          /\ report' = [op |-> "stop", level |-> "INFO", result |-> "FINISHED"]
          /\ calls' = LastTwo(Append(calls, "stop"))
  /\ UNCHANGED <<server_thread, server_socket, thr, sock, registered, accepted, extBusy,
                 platform>>
  /\ UNCHANGED connVars

\* register(): the classes are registered and the server starts at once
RegisterAddon ==
  /\ ~registered
  /\ registered' = TRUE
  /\ running' = TRUE
  /\ Spawn
  /\ calls' = LastTwo(Append(calls, "register"))
  /\ UNCHANGED <<server_socket, sock, report, accepted, extBusy, platform>>
  /\ UNCHANGED connVars

\* unregister()
UnregisterAddon ==
  /\ registered
  /\ running' = FALSE
  /\ registered' = FALSE
  /\ calls' = IF running THEN LastTwo(Append(calls, "unregister")) ELSE calls
  /\ UNCHANGED <<server_thread, server_socket, thr, sock, report, accepted, extBusy, platform>>
  /\ UNCHANGED connVars

\* ------------------------------------------------------------------ specifications
\* the steps of the thread of _handle_client(c)
HandlerStep(c) ==
  \/ \E n \in 1..Len(net[c]) : RecvChunk(c, n)
  \/ RecvEOF(c)
  \/ RecvReset(c)
  \/ Drain(c)
  \/ MkHolder(c)
  \/ MkEvent(c)
  \/ Register(c)
  \/ Wait(c)
  \/ Inspect(c)
  \/ Send(c)

ClientStep(c) ==
  \/ StartClient(c)
  \/ \E f \in menu : ClientSend(c, f)
  \/ ClientClose(c)
  \/ ClientReset(c)

HostStep ==
  \/ \E i \in sched : HostStart(i)
  \/ HostStore
  \/ HostSet

Next ==
  \/ \E c \in Conns : ClientStep(c)
  \/ \E c \in Conns : HandlerStep(c)
  \/ HostStep

NextLife ==
  \/ \E t \in Threads : LoopCreate(t)
  \/ \E t \in Threads : LoopBind(t)
  \/ \E t \in Threads : LoopTest(t)
  \/ \E t \in Threads, how \in {"timeout", "connection", "OSError"} : LoopAccept(t, how)
  \/ StartExecute
  \/ StopExecute
  \/ RegisterAddon
  \/ UnregisterAddon

\* one connection, every kind of frame
Init ==
  /\ InitConns(AllFrames, [c \in Conns |-> IF c = 1 THEN MaxFrames ELSE 0], TRUE)
  /\ InitLife({FALSE}, {"posix"})

Spec == Init /\ [][Next]_vars

\* the connection threads run and time passes; the main thread may stall
SpecFair == Init /\ [][Next]_vars /\ \A c \in Conns : WF_vars(HandlerStep(c))

\* the main thread keeps serving its timers and the connection threads run
SpecServed ==
  Init /\ [][Next]_vars /\ WF_vars(HostStep) /\ \A c \in Conns : WF_vars(HandlerStep(c))

\* concurrent connections, requests for registered commands
InitConc ==
  /\ InitConns(ConcFrames, [c \in Conns |-> MaxFramesConc], FALSE)
  /\ InitLife({FALSE}, {"posix"})

SpecConc == InitConc /\ [][Next]_vars

\* the server's lifecycle alone
InitLifecycle ==
  /\ InitConns({}, [c \in Conns |-> 0], TRUE)
  /\ InitLife(BOOLEAN, {"posix", "windows"})

SpecLife == InitLifecycle /\ [][NextLife]_vars

\* one connection whose peer may leave a line unfinished
InitTail ==
  /\ InitConns(TailFrames, [c \in Conns |-> IF c = 1 THEN MaxFrames ELSE 0], TRUE)
  /\ InitLife({FALSE}, {"posix"})

SpecTail == InitTail /\ [][Next]_vars

\* the steps of the thread of _server_loop number t
LoopStep(t) ==
  \/ LoopCreate(t)
  \/ LoopBind(t)
  \/ LoopTest(t)
  \/ \E how \in {"timeout", "connection", "OSError"} : LoopAccept(t, how)

\* the lifecycle with the accept loop threads running: accept returns
\* within its 1 s timeout and the thread goes on
SpecLifeFair == InitLifecycle /\ [][NextLife]_vars /\ \A t \in Threads : WF_vars(LoopStep(t))

\* ------------------------------------------------------------------ properties
\* the work items registered and not yet finished by the main thread
Pending ==
  sched \cup (IF host.phase = "idle" THEN {} ELSE {[conn |-> host.conn, req |-> host.req]})

\* the thread of _handle_client(c) is inside the dispatch of request nreq[c]
Dispatching(c) == pc[c] \in {"mkholder", "mkevent", "register", "wait", "inspect", "send"}

\* the value json.loads gives for the line of a response
RequestOf(entry) == JsonLoads(entry.line).value

\* C1: on every connection the k-th response written answers the k-th
\* non-blank line decoded, and the response to request N is written before
\* request N+1 is registered on the main thread: every work item of request
\* N+1 finds N responses written, and while request N is being dispatched
\* exactly N-1 responses are written.
C1_ResponsesInRequestOrder ==
  \A c \in Conns :
    /\ \A k \in 1..Len(out[c]) : out[c][k].req = k
    /\ \A i \in Pending : i.conn = c => Len(out[c]) >= i.req - 1
    /\ Dispatching(c) => Len(out[c]) = nreq[c] - 1

C1_Witness ==
  \E c \in Conns :
    /\ Len(out[c]) = 2
    /\ out[c][1].body # out[c][2].body
    /\ [conn |-> c, req |-> 1] \in sched

C3_LateResultDiscarded ==
  \A c \in Conns :
    \A j \in 1..Len(out[c]) :
      out[c][j].body = TimeoutResponse /\ out[c][j].by = 0 =>
        /\ \A k \in (j + 1)..Len(out[c]) : out[c][k].by # j
        /\ ~(nreq[c] > j /\ pc[c] \in {"register", "wait", "inspect"}
             /\ event[c].set /\ event[c].by = j)

\* C4: with the peer still connected, every non-blank line decoded has
\* exactly one response once the handler thread is back at the head of its
\* loop or has ended.
C4_OneResponsePerRequest ==
  \A c \in Conns :
    (pc[c] \in {"recv", "drain", "closed"} /\ peer[c] = "open") => Len(out[c]) = nreq[c]

\* C5: a connection thread that waits in done_event.wait leaves the wait
\* and has a response to write, whether or not the main thread ever runs
\* the work item.
C5_DispatchTerminates == \A c \in Conns : (pc[c] = "wait") ~> (pc[c] = "send")

C5_Witness ==
  \E c \in Conns :
    /\ pc[c] = "send"
    /\ timedOut[c]
    /\ response[c] = TimeoutResponse
    /\ sched = {[conn |-> c, req |-> 1]}
    /\ host.phase = "idle"

\* C6 as stated: a dispatch whose wait ended on the deadline answers with
\* the timeout failure.
C6_DeadlineYieldsTimeout ==
  \A c \in Conns : \A k \in 1..Len(out[c]) : out[c][k].late => out[c][k].body = TimeoutResponse

\* C6 amended: when the result slot is still unset as the connection thread
\* inspects it after the deadline, the one response of that request is the
\* timeout failure; work items leave the schedule only by the main thread
\* running them; and writing the timeout failure leaves the thread in its
\* loop, ready for the next frame.
C6_UnsetSlotYieldsTimeout ==
  /\ [](\A c \in Conns : \A k \in 1..Len(out[c]) :
          /\ (out[c][k].late /\ out[c][k].by = 0) =>
               (out[c][k].body = TimeoutResponse /\ out[c][k].req = k)
          /\ out[c][k].body = TimeoutResponse => out[c][k].by = 0)
  /\ [][\A i \in sched : i \notin sched' =>
          (host'.phase = "run" /\ host'.conn = i.conn /\ host'.req = i.req)]_vars
  /\ [][\A c \in Conns :
          (pc[c] = "send" /\ pc'[c] # "send" /\ response[c] = TimeoutResponse
             /\ peer[c] # "reset") =>
            (pc'[c] = "drain" /\ out'[c] # out[c] /\ sched' = sched)]_vars

C6_Witness ==
  \E c \in Conns :
    /\ Len(out[c]) = 2
    /\ out[c][1].late /\ out[c][1].by = 0 /\ out[c][1].body = TimeoutResponse
    /\ [conn |-> c, req |-> 1] \in sched

\* C10: a request whose command is no key of the handlers dict (compared
\* as the string it is) is answered by _handle_command with ok false and an
\* "available" list that holds every registered name once and nothing
\* else, both as the main thread computes it and as the connection writes
\* it when the request was answered by its own work item.
UnknownCommand(d) == d.type = "object" /\ d.command \notin Registered

ListsAllCommands(r) ==
  /\ ~r.ok
  /\ {r.available[i] : i \in DOMAIN r.available} = Registered
  /\ Len(r.available) = Cardinality(Registered)

LoopAlive(t) == thr[t].pc \in {"test", "accept"}

\* an accept loop is alive and the socket it accepts on is listening
Serving ==
  \E t \in Threads :
    /\ LoopAlive(t)
    /\ \E s \in Threads : sock[s] = "listening" /\ (s = server_socket \/ thr[t].cur = s)

\* no thread of _server_loop is starting up or about to leave: each one
\* has ended or polls the listening socket the global names
Settled ==
  \A t \in Threads :
    \/ thr[t].pc \in {"none", "done"}
    \/ /\ LoopAlive(t)
       /\ running
       /\ server_socket # 0
       /\ sock[server_socket] = "listening"
       /\ thr[t].cur \in {0, server_socket}

\* C7: after a stop followed by a start, with no other process on the
\* port, the server settles in a state where an accept loop is alive on a
\* listening socket, whatever the interleaving with the old loop's poll.
C7_StopThenStartListens ==
  (calls = <<"stop", "start">> /\ ~extBusy /\ Settled) => Serving

\* C8: a stop operator call, or unregister, while _running is false leaves
\* the server's state (flag, thread handle, socket handle, threads,
\* sockets) as it was, and returns (the operator reports CANCELLED).
C8_StopWhenStoppedIsNoOp ==
  [][((StopExecute \/ UnregisterAddon) /\ ~running) =>
       UNCHANGED <<running, server_thread, server_socket, thr, sock, accepted>>]_vars

C8_Witness ==
  /\ ~running
  /\ report = [op |-> "stop", level |-> "WARNING", result |-> "CANCELLED"]
  /\ \E t \in Threads : LoopAlive(t) /\ sock[t] = "listening"

\* C9: when bind fails in the thread the last start spawned, start has
\* failed: _running is false, no accept loop is alive and the operator was
\* not told FINISHED.
C9_BindFailureFailsStart ==
  \A t \in Threads :
    (/\ thr[t].pc = "done" /\ thr[t].why = "bind"
     /\ server_thread = t
     /\ report.op = "start"
     /\ calls # <<>> /\ calls[Len(calls)] = "start") =>
      (/\ ~running
       /\ report.result # "FINISHED"
       /\ \A u \in Threads : ~LoopAlive(u))

\* no dispatch on the connection has ended on its deadline up to response k
OnTime(c, k) == \A j \in 1..k : ~out[c][j].late

\* C11: a line that is not valid JSON is answered with the decode failure
\* (ok false) without anything being registered on the main thread or the
\* closure cells being touched; the rest of the buffer is kept, the thread
\* goes on with its loop after writing the failure, and a valid request
\* that follows it on the connection is answered by its own work item with
\* what _handle_command gives for it.
C11_BadJsonAnsweredAndSkipped ==
  /\ [](\A c \in Conns : \A k \in 1..Len(out[c]) :
          /\ JsonLoads(out[c][k].line).exc = "JSONDecodeError" =>
               (out[c][k].body = JsonErrorResponse /\ ~out[c][k].body.ok /\ out[c][k].by = 0)
          /\ (/\ k > 1
              /\ out[c][k - 1].body = JsonErrorResponse
              /\ JsonLoads(out[c][k].line).exc = ""
              /\ OnTime(c, k)) =>
               (/\ out[c][k].by = k
                /\ out[c][k].body = HandleCommand(RequestOf(out[c][k])).response))
  /\ [][\A c \in Conns :
          (pc[c] = "drain" /\ pc'[c] = "send") =>
            (/\ response'[c] = JsonErrorResponse
             /\ buffer'[c] = SplitLine(buffer[c]).rest
             /\ UNCHANGED <<sched, host, data, holder, event>>)]_vars
  /\ [][\A c \in Conns :
          (pc[c] = "send" /\ pc'[c] # "send" /\ response[c] = JsonErrorResponse
             /\ peer[c] # "reset") =>
            (/\ pc'[c] = "drain"
             /\ Len(out'[c]) = Len(out[c]) + 1
             /\ buffer'[c] = buffer[c])]_vars

C11_Witness ==
  \E c \in Conns :
    /\ Len(out[c]) = 2
    /\ out[c][1].line = Text(FTruncated)
    /\ out[c][1].body = JsonErrorResponse
    /\ out[c][2].by = 2
    /\ out[c][2].body = Success("status=alive")

\* the bytes of a sequence of frames, one after the other
RECURSIVE Flatten(_)
Flatten(frames) == IF frames = <<>> THEN <<>> ELSE Head(frames) \o Flatten(Tail(frames))

\* the non-blank complete lines of a byte stream taken whole, in order
RECURSIVE Lines(_)
Lines(s) ==
  IF FirstNL(s, 1) = 0
  THEN <<>>
  ELSE LET sp == SplitLine(s)
       IN  (IF Strip(sp.line) = <<>> THEN <<>> ELSE <<sp.line>>) \o Lines(sp.rest)

\* what follows the last newline of a byte stream
RECURSIVE Remainder(_)
Remainder(s) == IF FirstNL(s, 1) = 0 THEN s ELSE Remainder(SplitLine(s).rest)

\* the bytes recv has returned on connection c so far
Received(c) == SubSeq(Flatten(sent[c]), 1, Len(Flatten(sent[c])) - Len(net[c]))

\* C12: however recv cuts the byte stream into chunks, the lines the
\* connection decodes, dispatches and answers are the non-blank lines of
\* the stream taken whole, in order: the k-th response answers the k-th
\* such line, the data of a dispatched request is the value of its line,
\* a response made by the request's own work item is what _handle_command
\* gives for that line, and the lines decoded so far plus those still in
\* the buffer are the lines of the bytes received, with the same
\* unfinished tail.
C12_ChunkingIndependent ==
  \A c \in Conns :
    LET all == Lines(Flatten(sent[c]))
    IN  /\ nreq[c] <= Len(all)
        /\ Len(out[c]) <= nreq[c]
        /\ \A k \in 1..Len(out[c]) :
             /\ out[c][k].line = all[k]
             /\ (out[c][k].by = k /\ out[c][k].on = k) =>
                  out[c][k].body = HandleCommand(JsonLoads(all[k]).value).response
        /\ dataReq[c] >= 1 => data[c] = JsonLoads(all[dataReq[c]]).value
        /\ \A i \in Pending : i.conn = c => i.req <= nreq[c]
        /\ peer[c] # "reset" =>
             /\ nreq[c] + Len(Lines(buffer[c])) = Len(Lines(Received(c)))
             /\ Remainder(buffer[c]) = Remainder(Received(c))

\* a chunk has ended inside the second frame after the first was answered
C12_Witness ==
  \E c \in Conns :
    /\ sent[c] = <<FPing, FPing>>
    /\ Len(out[c]) = 1
    /\ out[c][1].body = Success("status=alive")
    /\ pc[c] = "recv"
    /\ buffer[c] = <<FPing[1]>>
    /\ net[c] = <<FPing[2], NL>>

\* C13: an exception raised while one frame is decoded or handled never
\* ends the connection: the thread of _handle_client ends only on the
\* peer's end of stream or reset, and every frame decoded while the peer
\* is connected has its response once the thread is past it.
C13_FrameExceptionAnswered ==
  \A c \in Conns :
    /\ crashed[c] = ""
    /\ peer[c] = "open" => pc[c] # "closed"
    /\ (pc[c] \in {"recv", "drain"} /\ peer[c] = "open") =>
         (Len(out[c]) = nreq[c] /\ \A k \in 1..Len(out[c]) : out[c][k].req = k)

\* the request is an object that names a registered command
RegisteredRequest(d) == d.type = "object" /\ d.command \in Registered

\* C14: for a registered command _handle_command gives {ok: true, result:
\* the handler's value} when the handler returns and {ok: false, error,
\* traceback} when it raises, no exception leaving it; and once the
\* request's own work item has stored that response within the deadline
\* (no earlier request of the connection having timed out), the event is set by that work item, the connection is still open and,
\* when its thread is past the request, the stored response is the one
\* written for it.
C14_HandlerOutcomeEnveloped ==
  /\ (host.phase # "idle" /\ RegisteredRequest(host.arg)) =>
       LET r == Handler(host.arg.command, host.arg.params)
       IN  /\ host.exc = ""
           /\ host.val.ok = ~r.raised
           /\ r.raised => (host.val.error = r.value /\ host.val.traceback # "")
           /\ ~r.raised => (host.val.result = r.value /\ host.val.error = "")
  /\ \A c \in Conns :
       (/\ holder[c].set /\ holder[c].by = nreq[c] /\ holder[c].on = nreq[c]
        /\ RegisteredRequest(data[c])
        /\ ~timedOut[c] /\ OnTime(c, Len(out[c]))
        /\ peer[c] = "open"
        /\ pc[c] \in {"recv", "drain", "closed"}) =>
         (/\ event[c].set /\ event[c].by = nreq[c]
          /\ pc[c] # "closed"
          /\ Len(out[c]) = nreq[c]
          /\ out[c][nreq[c]].body = holder[c].val)

\* C15: with the main thread serving its schedule (no dispatch of the
\* connection has timed out) and the peer connected, once the connection
\* thread is past a valid request for a registered command whose handler
\* returns, exactly one response has been written for it and it is the
\* success envelope carrying the handler's value; for
\* {"command": "ping", "params": {}} the result's status is "alive".
C15_ValidRequestSucceeds ==
  \A c \in Conns :
    LET all == Lines(Flatten(sent[c]))
        n == nreq[c]
    IN  (/\ n >= 1
         /\ pc[c] \in {"recv", "drain", "closed"}
         /\ peer[c] = "open"
         /\ ~timedOut[c] /\ OnTime(c, Len(out[c]))
         /\ JsonLoads(all[n]).exc = ""
         /\ RegisteredRequest(JsonLoads(all[n]).value)
         /\ ~Handler(JsonLoads(all[n]).value.command, JsonLoads(all[n]).value.params).raised) =>
          (/\ Len(out[c]) = n
           /\ out[c][n].req = n
           /\ out[c][n].body.ok
           /\ out[c][n].body.error = ""
           /\ out[c][n].body.result # ""
           /\ Strip(all[n]) = Text(FPing) => out[c][n].body.result = "status=alive")

\* C16: _handle_command runs on the main thread only.  A result is stored
\* and an event is set only by a step of the main thread inside a work
\* item; a handler invocation begins only as the main thread takes a work
\* item off the schedule; no step of a connection thread changes the main
\* thread's state; and the connection thread at the register step does
\* nothing but add its work item to the schedule and enter the wait.
C16_HandlersOnHostOnly ==
  /\ [][\A c \in Conns :
          /\ (holder'[c] # holder[c] /\ holder'[c].set) =>
               (host.phase = "run" /\ host.conn = c /\ host'.phase = "set" /\ pc' = pc)
          /\ (event'[c].set /\ ~event[c].set) =>
               (host.phase = "set" /\ host.conn = c /\ pc' = pc)]_vars
  /\ [][(host'.phase = "run" /\ host.phase # "run") =>
          /\ pc' = pc
          /\ \E i \in sched :
               sched' = sched \ {i} /\ host'.conn = i.conn /\ host'.req = i.req]_vars
  /\ [][\A c \in Conns : pc'[c] # pc[c] => host' = host]_vars
  /\ [][\A c \in Conns :
          (pc[c] = "register" /\ pc'[c] # "register") =>
            (/\ pc'[c] = "wait"
             /\ sched' = sched \cup {[conn |-> c, req |-> nreq[c]]}
             /\ UNCHANGED <<holder, event, response, out>>)]_vars

C16_Witness ==
  /\ host.phase = "run"
  /\ host.arg.command = "ping"
  /\ pc[host.conn] = "wait"
  /\ host.req = nreq[host.conn]

\* C17: a work item runs _handle_command on the data of the request that
\* registered it, so the command and parameters of a request are executed
\* by its own work item only, hence at most once: the work item the main
\* thread is inside, and the one whose value a result slot holds, ran on
\* its own request's data.
C17_OwnDataExecutedOnce ==
  /\ host.phase # "idle" => host.on = host.req
  /\ \A c \in Conns : holder[c].set => holder[c].on = holder[c].by

\* the work item of the request connection c is dispatching
OwnItem(c) == [conn |-> c, req |-> nreq[c]]

\* the connection thread holds the decoded value of its current request
Decoded(c) == nreq[c] >= 1 /\ dataReq[c] = nreq[c]

\* C18: a request whose command is not registered is answered by the
\* connection thread itself: no work item is registered for it, the thread
\* never waits for the main thread on its behalf, and the response written
\* for it is the unknown-command failure whether or not the main thread
\* runs.
C18_UnknownAnsweredWithoutHandoff ==
  \A c \in Conns :
    /\ (Decoded(c) /\ UnknownCommand(data[c])) =>
         (OwnItem(c) \notin Pending /\ pc[c] \notin {"wait", "inspect"})
    /\ \A k \in 1..Len(out[c]) :
         UnknownCommand(RequestOf(out[c][k])) =>
           (out[c][k].by = 0 /\ ListsAllCommands(out[c][k].body))

\* C19: a line whose JSON value is not an object is not dispatched: no
\* work item is registered for it and the thread does not wait on its
\* behalf; the response written for it is a failure that carries the parse
\* error, and the connection is not closed by it.
C19_NonObjectRejected ==
  \A c \in Conns :
    /\ (Decoded(c) /\ data[c].type # "object") =>
         (OwnItem(c) \notin Pending /\ pc[c] \notin {"wait", "inspect", "closed"})
    /\ \A k \in 1..Len(out[c]) :
         (JsonLoads(out[c][k].line).exc = "" /\ RequestOf(out[c][k]).type # "object") =>
           (/\ ~out[c][k].body.ok
            /\ out[c][k].body = JsonErrorResponse
            /\ out[c][k].by = 0)

\* C20: the main thread is inside at most one execute_in_main at a time,
\* whatever the number of connections with work items registered: a
\* handler body begins only with the main thread idle, and from inside a
\* work item the main thread goes on with that same work item (store the
\* result, set the event) until it is idle again.
C20_OneHandlerAtATime ==
  /\ [][(host'.phase = "run" /\ host' # host) => host.phase = "idle"]_vars
  /\ [][(host.phase = "run" /\ host' # host) =>
          (/\ host'.phase \in {"set", "idle"}
           /\ host'.phase = "set" => (host'.conn = host.conn /\ host'.req = host.req))]_vars
  /\ [][(host.phase = "set" /\ host' # host) => host' = HostIdle]_vars

\* a work item of one connection runs while one of the other is registered
C20_Witness ==
  /\ host.phase = "run"
  /\ host.conn = 1
  /\ pc[1] = "wait" /\ pc[2] = "wait"
  /\ \E i \in sched : i.conn = 2

\* the frames of a sequence that are not whitespace-only lines
RECURSIVE NonBlank(_)
NonBlank(frames) ==
  IF frames = <<>> THEN <<>>
  ELSE (IF Strip(Text(Head(frames))) = <<>> THEN <<>> ELSE <<Head(frames)>>)
         \o NonBlank(Tail(frames))

\* C21: splitting a whitespace-only line off the buffer writes nothing,
\* registers nothing and starts no request: the thread stays in its drain
\* loop with every other local as it was; and the responses of the
\* connection are those of the frames sent with the blank ones left out:
\* never more than those, the k-th for the k-th of them, and, when made by
\* the request's own work item, what _handle_command gives for it.
C21_BlankLineSkipped ==
  /\ [](\A c \in Conns :
          LET kept == NonBlank(sent[c])
          IN  /\ nreq[c] <= Len(kept)
              /\ Len(out[c]) <= Len(kept)
              /\ \A k \in 1..Len(out[c]) :
                   /\ Strip(out[c][k].line) # <<>>
                   /\ out[c][k].line = Text(kept[k])
                   /\ (out[c][k].by = k /\ out[c][k].on = k) =>
                        out[c][k].body = HandleCommand(JsonLoads(Text(kept[k])).value).response)
  /\ [][\A c \in Conns :
          (/\ pc[c] = "drain"
           /\ FirstNL(buffer[c], 1) # 0
           /\ Strip(SplitLine(buffer[c]).line) = <<>>
           /\ buffer'[c] # buffer[c]) =>
            (/\ buffer'[c] = SplitLine(buffer[c]).rest
             /\ pc'[c] = "drain"
             /\ UNCHANGED <<out, sched, host, nreq, data, dataReq, holder, event, response,
                            timedOut, crashed>>)]_vars

C21_Witness ==
  \E c \in Conns :
    /\ sent[c] = <<FBlank, FPing>>
    /\ Len(out[c]) = 1
    /\ out[c][1].req = 1
    /\ out[c][1].body = Success("status=alive")

\* the newline bytes of a byte sequence
Newlines(bytes) == {i \in 1..Len(bytes) : bytes[i] = NL}

\* C25: every response frame written holds exactly one newline byte, its
\* last byte, whatever the response carries: a traceback, whose text has
\* newlines of its own, included.
C25_OneNewlineAtEnd ==
  \A c \in Conns : \A k \in 1..Len(out[c]) :
    Newlines(out[c][k].bytes) = {Len(out[c][k].bytes)}

C25_Witness ==
  \E c \in Conns : \E k \in 1..Len(out[c]) :
    /\ out[c][k].body.traceback # ""
    /\ Newlines(Chars(out[c][k].body.traceback)) # {}

\* C22: a recv that returns b"" (the peer has closed and every byte was
\* read) or raises on a reset, and a send on a reset connection, end the
\* handler with nothing written by that step and nothing registered; an
\* exception that ends the thread leaves the socket closed as well; and a
\* handler that has ended stays ended and writes nothing more.
C22_HandlerEndsClosed ==
  /\ [](\A c \in Conns : crashed[c] # "" => pc[c] = "closed")
  /\ [][\A c \in Conns :
          /\ (/\ pc[c] = "recv" /\ pc'[c] # "recv"
              /\ (peer[c] = "reset" \/ (peer[c] = "closed" /\ net[c] = <<>>))) =>
               (pc'[c] = "closed" /\ out'[c] = out[c] /\ sched' = sched)
          /\ (pc[c] = "send" /\ pc'[c] # "send" /\ peer[c] = "reset") =>
               (pc'[c] = "closed" /\ out'[c] = out[c] /\ sched' = sched)
          /\ pc[c] = "closed" => (pc'[c] = "closed" /\ out'[c] = out[c])]_vars

\* the handler ended on a send to a peer that had reset the connection
C22_Witness ==
  \E c \in Conns :
    /\ pc[c] = "closed"
    /\ peer[c] = "reset"
    /\ crashed[c] = ""
    /\ nreq[c] = Len(out[c]) + 1
    /\ response[c] = Success("status=alive")

\* the work items a connection of this model can register
WorkItems == {[conn |-> c, req |-> n] : c \in Conns, n \in 1..MaxFrames}

\* C23: a work item that is on the schedule is run by the main thread, as
\* long as the main thread serves its schedule, and what it runs is the
\* handler of the request that registered it, whether the client has
\* closed the connection or the waiting thread has timed out meanwhile.
C23_ScheduledRequestRuns ==
  \A i \in WorkItems :
    (i \in sched) ~>
      (host.phase = "run" /\ host.conn = i.conn /\ host.req = i.req /\ host.on = i.req)

\* the last lifecycle call that changed _running is a stop
Stopped == ~running /\ calls # <<>> /\ calls[Len(calls)] = "stop"

\* no thread of _server_loop is alive and no socket listens
AllLoopsEnded ==
  /\ \A t \in Threads : thr[t].pc \in {"none", "done"}
  /\ \A s \in Threads : sock[s] # "listening"

\* C24: after a stop, unless the server is started again, every accept
\* loop comes to test the flag, leaves its loop and the listening socket
\* is closed.
C24_StopEndsLoop == Stopped ~> (running \/ AllLoopsEnded)

C24_Witness ==
  /\ Stopped
  /\ AllLoopsEnded
  /\ \E t \in Threads : thr[t].pc = "done" /\ thr[t].why = "stop" /\ sock[t] = "closed"

\* a thread of _server_loop has been started and has not ended
LoopLive(t) == thr[t].pc \in {"create", "bind", "test", "accept"}

\* C26: while _running is true (the panel shows the server as active) a
\* thread of _server_loop is alive or starting.
C26_RunningHasLoop == running => \E t \in Threads : LoopLive(t)

\* C27: at most one thread of _server_loop is alive at a time, and the
\* socket it accepts on is the one it created.
C27_SingleAcceptLoop ==
  /\ Cardinality({t \in Threads : LoopLive(t)}) <= 1
  /\ \A t \in Threads : thr[t].pc = "accept" => thr[t].cur = t

\* C28 as stated: no connection is accepted while the last lifecycle call
\* is a stop.
C28_NoAcceptAfterStop == [][accepted' # accepted => ~Stopped]_vars

\* C28 amended: a connection is accepted only by a loop thread whose
\* accept call had begun, after a test that found _running true, and that
\* thread goes back to the test of the flag; a loop thread that tests the
\* flag while it is false leaves its loop.  So after a stop a loop accepts
\* at most the connection of the accept call in progress.
C28_OnlyPendingAcceptAfterStop ==
  /\ [][accepted' # accepted =>
          \E t \in Threads : thr[t].pc = "accept" /\ thr'[t].pc = "test"]_vars
  /\ [][\A t \in Threads :
          (thr'[t].pc = "accept" /\ thr[t].pc # "accept") => (thr[t].pc = "test" /\ running)]_vars
  /\ [][\A t \in Threads :
          (thr[t].pc = "test" /\ ~running /\ thr'[t] # thr[t]) =>
            (thr'[t].pc = "done" /\ accepted' = accepted)]_vars

\* the flag has been cleared while an accept call is in progress on the
\* listening socket
C28_Witness ==
  /\ Stopped
  /\ accepted < MaxAccepts
  /\ \E t \in Threads : thr[t].pc = "accept" /\ sock[thr[t].cur] = "listening"

\* C29: the response of a dispatch is decided by the result slot as the
\* connection thread finds it after its wait, not by how the wait ended:
\* the timeout failure when the slot is unset, the stored value when it is
\* set, also when it was stored after the deadline; so a response written
\* for a dispatched request is the timeout failure exactly when no work
\* item's value is behind it.
C29_SlotDecidesResponse ==
  /\ [](\A c \in Conns : \A k \in 1..Len(out[c]) :
          JsonLoads(out[c][k].line).exc = "" =>
            (out[c][k].body = TimeoutResponse <=> out[c][k].by = 0))
  /\ [][\A c \in Conns :
          (pc[c] = "inspect" /\ pc'[c] # "inspect") =>
            /\ holder[c].set =>
                 (response'[c] = holder[c].val /\ response'[c] # TimeoutResponse)
            /\ ~holder[c].set => response'[c] = TimeoutResponse]_vars

\* a value stored after the deadline and before the inspection was written
C29_Witness ==
  \E c \in Conns : \E k \in 1..Len(out[c]) :
    /\ out[c][k].late
    /\ out[c][k].by = k
    /\ out[c][k].body = Success("status=alive")

\* C30: what the connection has received after the last newline is kept
\* in the buffer and is no request: the lines decoded, and the work items
\* registered, never outnumber the complete non-blank lines received; a
\* thread waiting in recv holds exactly the unfinished tail; and a handler
\* ended by the peer's close has decoded and answered the complete lines
\* only, the unfinished tail still in its buffer, dropped with it.
C30_TailKeptUndispatched ==
  \A c \in Conns :
    LET stream == Flatten(sent[c])
    IN  /\ nreq[c] <= Len(Lines(stream))
        /\ \A i \in Pending : i.conn = c => i.req <= Len(Lines(stream))
        /\ (pc[c] = "recv" /\ peer[c] # "reset") =>
             (/\ buffer[c] = Remainder(Received(c))
              /\ nreq[c] = Len(Lines(Received(c)))
              /\ Len(out[c]) = nreq[c])
        /\ (pc[c] = "closed" /\ peer[c] = "closed" /\ crashed[c] = "") =>
             (/\ buffer[c] = Remainder(stream)
              /\ nreq[c] = Len(Lines(stream))
              /\ Len(out[c]) = nreq[c])

C30_Witness ==
  \E c \in Conns :
    /\ sent[c] = <<FPing, FOpen>>
    /\ pc[c] = "closed"
    /\ peer[c] = "closed"
    /\ buffer[c] = FOpen
    /\ Len(out[c]) = 1
    /\ sched = {}
    /\ host.phase = "idle"

====
